---- MODULE Spec2Model ----
(***************************************************************************)
(* hydrafloods.datasets: Dataset wrappers around remote image collections. *)
(*                                                                         *)
(* A collection is modelled by the expression built for it (ops: the       *)
(* chain of calls, in order) together with the value that expression       *)
(* denotes on the remote catalog (imgs).  Building an expression costs no  *)
(* remote request; only getInfo() does (evals).                            *)
(***************************************************************************)
EXTENDS Integers, Sequences, FiniteSets, TLC

VARIABLES heap, catalog, call, ret, evals, failed, steps

vars == <<heap, catalog, call, ret, evals, failed, steps>>

(***************************************************************************)
(* Bounds of the model.                                                    *)
(***************************************************************************)
\* Calls (constructors, methods, property reads) in one run.
MaxCalls == 3
\* Images of one asset when the catalog is drawn (InitColl).
MaxImgs == 2

(***************************************************************************)
(* Time and space of the remote service.                                   *)
(***************************************************************************)
\* ee.Date arithmetic: one "day" of advance(period, "day"), in milliseconds.
MillisPerDay == 24 * 60 * 60 * 1000
HalfDay == MillisPerDay \div 2

\* Footprints and regions are sets of cells.
Cells == {1, 2}

\* ee.Date(x).format("YYYY-MM-dd"): the calendar day of a time stamp.
FormatDay(t) == t \div MillisPerDay
\* ee.Date(d) of a "YYYY-MM-dd" string: midnight of that day.
DateOfDay(d) == d * MillisPerDay
\* ee.Date(x).format("YYYY-MM-dd HH:mm:ss.SSS"): day and time of day.
FormatFull(t) == <<t \div MillisPerDay, t % MillisPerDay>>

Range(s) == {s[k] : k \in 1..Len(s)}

\* ee.List.distinct(): first occurrences, in order.
RECURSIVE Distinct(_)
NotDistinct(s) == s
Distinct(s) ==
    IF s = <<>> THEN <<>>
    ELSE LET front == Distinct(SubSeq(s, 1, Len(s) - 1))
             last  == s[Len(s)]
         IN  IF last \in Range(front) THEN front ELSE Append(front, last)

(***************************************************************************)
(* Band names.                                                             *)
(***************************************************************************)
BANDREMAP ==
    [landsat7 |-> <<"B1", "B2", "B3", "B4", "B5", "B7">>,
     landsat8 |-> <<"B2", "B3", "B4", "B5", "B6", "B7">>,
     viirs    |-> <<"M2", "M4", "I1", "I2", "I3", "M11">>,
     sen2     |-> <<"B2", "B3", "B4", "B8", "B11", "B12">>,
     modis    |-> <<"sur_refl_b03", "sur_refl_b04", "sur_refl_b01",
                    "sur_refl_b02", "sur_refl_b06", "sur_refl_b07">>,
     new      |-> <<"blue", "green", "red", "nir", "swir1", "swir2">>]

Classes == {"Dataset", "Sentinel1", "Viirs", "Modis", "Landsat8", "Landsat7", "Sentinel2"}
Optical == {"Viirs", "Modis", "Landsat8", "Landsat7", "Sentinel2"}

\* The default asset_id of each subclass constructor.
DefaultAsset(cls) ==
    CASE cls = "Sentinel1" -> "COPERNICUS/S1_GRD"
      [] cls = "Viirs"     -> "NOAA/VIIRS/001/VNP09GA"
      [] cls = "Modis"     -> "MODIS/006/MOD09GA"
      [] cls = "Landsat8"  -> "LANDSAT/LC08/C01/T1_SR"
      [] cls = "Landsat7"  -> "LANDSAT/LE07/C01/T1_SR"
      [] cls = "Sentinel2" -> "COPERNICUS/S2_SR"

Assets == {DefaultAsset(c) : c \in Classes \ {"Dataset"}}

\* The BANDREMAP key each optical constructor selects with.
RemapKey(cls) ==
    CASE cls = "Viirs"     -> "viirs"
      [] cls = "Modis"     -> "modis"
      [] cls = "Landsat8"  -> "landsat8"
      [] cls = "Landsat7"  -> "landsat7"
      [] cls = "Sentinel2" -> "sen2"

\* The bands each class's qa() reads with img.select(...).
QaBands(cls) ==
    CASE cls = "Dataset"   -> <<>>
      [] cls = "Sentinel1" -> <<"angle">>
      [] cls = "Viirs"     -> <<"QF1", "QF2", "SensorZenith">>
      [] cls = "Modis"     -> <<"state_1km", "SensorZenith">>
      [] cls = "Landsat8"  -> <<"pixel_qa">>
      [] cls = "Landsat7"  -> <<"pixel_qa">>
      [] cls = "Sentinel2" -> <<"SCL">>

\* Whether the class defines a qa() method.
HasQaAlways(cls) == TRUE
HasQa(cls) == cls # "Dataset"

\* The bands of an image of the remote asset: the ones the wrappers use.
RawBands(asset) ==
    CASE asset = "COPERNICUS/S1_GRD"      -> <<"VV", "VH">> \o QaBands("Sentinel1")
      [] asset = "NOAA/VIIRS/001/VNP09GA" -> BANDREMAP.viirs \o QaBands("Viirs")
      [] asset = "MODIS/006/MOD09GA"      -> BANDREMAP.modis \o QaBands("Modis")
      [] asset = "LANDSAT/LC08/C01/T1_SR" -> <<"B1">> \o BANDREMAP.landsat8 \o QaBands("Landsat8")
      [] asset = "LANDSAT/LE07/C01/T1_SR" -> BANDREMAP.landsat7 \o QaBands("Landsat7")
      [] asset = "COPERNICUS/S2_SR"       -> BANDREMAP.sen2 \o QaBands("Sentinel2")

(***************************************************************************)
(* Images and what the remote service does with them.                      *)
(***************************************************************************)
\* An image: its system:time_start (t), footprint (geo), band names, the
\* catalog band each band comes from (src, position by position), the
\* per-image steps applied so far (hist), the catalog images it was built
\* from (parts), and whether its evaluation fails (err).
Img(id, t, geo, bands) ==
    [id |-> id, t |-> t, geo |-> geo, bands |-> bands, src |-> bands,
     hist |-> <<>>, parts |-> <<id>>, err |-> FALSE]

\* An image whose evaluation fails at the given step.
Fail(img, step) ==
    [img EXCEPT !.bands = <<>>, !.src = <<>>, !.hist = Append(@, step), !.err = TRUE]

\* The position of band b in an image that has it.
BandIndex(img, b) == CHOOSE k \in 1..Len(img.bands) : img.bands[k] = b

\* decorators.carry_metadata: the result keeps the input's properties.
carry_metadata(img, out) == [out EXCEPT !.t = img.t]

\* geeutils.get_geoms: the footprint of an image.
get_geoms(img) == img.geo

\* ee.Image.select(old, new): the bands named in old, in that order, renamed
\* to new; fails when a band is missing.
SelectKeepNames(img, old, new) ==
    IF img.err \/ ~(Range(old) \subseteq Range(img.bands))
    THEN Fail(img, "select")
    ELSE [img EXCEPT !.bands = old,
                     !.src   = [k \in 1..Len(old) |-> img.src[BandIndex(img, old[k])]],
                     !.hist  = Append(@, "select")]
SelectBands(img, old, new) ==
    IF img.err \/ ~(Range(old) \subseteq Range(img.bands))
    THEN Fail(img, "select")
    ELSE [img EXCEPT !.bands = new,
                     !.src   = [k \in 1..Len(old) |-> img.src[BandIndex(img, old[k])]],
                     !.hist  = Append(@, "select")]

\* qa(): reads the class's QA bands and masks the image; all bands are kept.
qa(cls, img) ==
    carry_metadata(img,
        IF img.err \/ ~(Range(QaBands(cls)) \subseteq Range(img.bands))
        THEN Fail(img, "qa")
        ELSE [img EXCEPT !.hist = Append(@, "qa")])

\* band_pass_adjustment(): img.multiply(gain).add(bias) with six-band constant
\* images; band-wise arithmetic needs as many bands on both sides (or one).
\* A one-band image takes the bands of ee.Image.constant([...]), which are
\* named constant_0, constant_1, ...
band_pass_adjustment(img) ==
    carry_metadata(img,
        IF img.err \/ Len(img.bands) \notin {1, Len(BANDREMAP.new)}
        THEN Fail(img, "band_pass_adjustment")
        ELSE IF Len(img.bands) = 1
        THEN [img EXCEPT !.bands = [k \in 1..Len(BANDREMAP.new) |->
                                            "constant_" \o ToString(k - 1)],
                         !.src  = [k \in 1..Len(BANDREMAP.new) |-> img.src[1]],
                         !.hist = Append(@, "band_pass_adjustment")]
        ELSE [img EXCEPT !.hist = Append(@, "band_pass_adjustment")])

\* The closure clip(img) of clip_to_region.
clip(region, img) ==
    carry_metadata(img,
        [img EXCEPT !.geo = @ \cap region, !.hist = Append(@, "clip")])

(***************************************************************************)
(* Collections: the expression (ops) and the value it denotes: its images  *)
(* (imgs), or no value at all when the evaluation of the expression fails  *)
(* as a whole (err); an expression built on a failing one fails too.       *)
(***************************************************************************)
NoColl == [ops |-> <<>>, imgs |-> <<>>, err |-> FALSE]

ImageCollection(cat, asset) ==
    [ops |-> <<"ImageCollection">>, imgs |-> cat[asset], err |-> FALSE]

filterBounds(c, region) ==
    [ops  |-> Append(c.ops, "filterBounds"),
     imgs |-> SelectSeq(c.imgs, LAMBDA i : i.geo \cap region # {}),
     err  |-> c.err]

\* filterDate(start, end): start inclusive, end exclusive.
filterDateInclusive(c, start, end) ==
    [ops  |-> Append(c.ops, "filterDate"),
     imgs |-> SelectSeq(c.imgs, LAMBDA i : start <= i.t /\ i.t <= end),
     err  |-> c.err]
filterDate(c, start, end) ==
    [ops  |-> Append(c.ops, "filterDate"),
     imgs |-> SelectSeq(c.imgs, LAMBDA i : start <= i.t /\ i.t < end),
     err  |-> c.err]

\* collection.map(f): out is f applied to every image, in order.
MapColl(c, step, out) == [ops |-> Append(c.ops, step), imgs |-> out, err |-> c.err]

SelectColl(c, old, new) ==
    [ops  |-> Append(c.ops, "select"),
     imgs |-> [k \in 1..Len(c.imgs) |-> SelectBands(c.imgs[k], old, new)],
     err  |-> c.err]

(***************************************************************************)
(* Constructors.  Each yields the instance and whether __init__ raised.    *)
(***************************************************************************)
Instance(cls, region, start_time, end_time, asset_id, use_qa) ==
    [cls |-> cls, region |-> region, start_time |-> start_time,
     end_time |-> end_time, asset_id |-> asset_id, use_qa |-> use_qa,
     adjusted |-> FALSE, assigned |-> FALSE, collection |-> NoColl]

\* The property setter: self.collection = value.
SetCollection(obj, value) == [obj EXCEPT !.collection = value, !.assigned = TRUE]

DatasetInit(cat, cls, region, start_time, end_time, asset_id, use_qa) ==
    LET self == Instance(cls, region, start_time, end_time, asset_id, use_qa)
        imgcollection ==
            filterDate(filterBounds(ImageCollection(cat, asset_id), region),
                       start_time, end_time)
    IN  IF use_qa
        THEN IF HasQa(cls)
             THEN [raised |-> "",
                   obj |-> SetCollection(self,
                             MapColl(imgcollection, "map:qa",
                                 [k \in 1..Len(imgcollection.imgs) |->
                                     qa(cls, imgcollection.imgs[k])]))]
             ELSE [raised |-> "AttributeError", obj |-> self]
        ELSE [raised |-> "", obj |-> SetCollection(self, imgcollection)]


\* The slots of the heap, one for each object a run can make; an empty slot
\* holds NoObj.
ObjIds == 1..MaxCalls
NoObj == Instance("", {}, 0, 0, "", FALSE)
Free(h) == {i \in DOMAIN h : h[i].cls = ""}
Live(h) == DOMAIN h \ Free(h)
NewId(h) == CHOOSE i \in Free(h) : \A j \in Free(h) : i <= j

\* What a call returns.
NoneRet == [kind |-> "None", id |-> 0, n |-> 0, val |-> <<>>]
ObjRet(id) == [kind |-> "obj", id |-> id, n |-> 0, val |-> <<>>]
IntRet(n) == [kind |-> "int", id |-> 0, n |-> n, val |-> <<>>]
ListRet(v) == [kind |-> "list", id |-> 0, n |-> 0, val |-> v]
StrRet == [kind |-> "str", id |-> 0, n |-> 0, val |-> <<>>]
RaiseRet(e) == [kind |-> e, id |-> 0, n |-> 0, val |-> <<>>]

(***************************************************************************)
(* Methods of Dataset.  Each yields the heap after the call and the value  *)
(* returned.                                                               *)
(***************************************************************************)
\* copy(): a deep copy, a new object equal to self.
copyAlias(h, self) == [heap |-> h, id |-> self]
copy(h, self) ==
    LET id == NewId(h) IN [heap |-> [h EXCEPT ![id] = h[self]], id |-> id]

\* ee.Image.addBands(src) without overwrite: a band whose name is taken is
\* renamed with the first free numerical suffix.
RECURSIVE FreeName(_, _, _)
FreeName(names, b, n) ==
    IF n = 0
    THEN IF b \in names THEN FreeName(names, b, 1) ELSE b
    ELSE IF (b \o "_" \o ToString(n)) \in names
         THEN FreeName(names, b, n + 1)
         ELSE b \o "_" \o ToString(n)

RECURSIVE addBands(_, _)
addBands(bands, src) ==
    IF src = <<>> THEN bands
    ELSE addBands(Append(bands, FreeName(Range(bands), Head(src), 0)), Tail(src))

\* The user functions apply_func is called with, and _add_fusion_features:
\* img.addBands(cat([orbit, ratio, ndpi])), the three bands computed from VV,
\* VH and the orbit property.
UserFuncs == {"f"}
ApplyTo(func, img) ==
    IF func = "_add_fusion_features"
    THEN IF img.err \/ ~({"VV", "VH"} \subseteq Range(img.bands))
         THEN Fail(img, func)
         ELSE [img EXCEPT !.bands = addBands(@, <<"orbit", "ratio", "ndpi">>),
                          !.src  = @ \o <<"orbit", "ratio", "ndpi">>,
                          !.hist = Append(@, func)]
    ELSE [img EXCEPT !.hist = Append(@, func)]

apply_func(h, self, func, inplace) ==
    IF inplace
    THEN [heap |-> [h EXCEPT ![self] = SetCollection(@,
                      MapColl(h[self].collection, "map:func",
                          [k \in 1..Len(h[self].collection.imgs) |->
                              ApplyTo(func, h[self].collection.imgs[k])]))],
          ret  |-> NoneRet]
    ELSE LET outCls == copy(h, self)
         IN  [heap |-> [outCls.heap EXCEPT ![outCls.id] = SetCollection(@,
                          MapColl(h[self].collection, "map:func",
                              [k \in 1..Len(h[self].collection.imgs) |->
                                  ApplyTo(func, h[self].collection.imgs[k])]))],
              ret  |-> ObjRet(outCls.id)]

\* A clip_to_region whose inplace branch returns without assigning.
clip_to_regionNoAssign(h, self, inplace) ==
    IF inplace
    THEN [heap |-> h, ret |-> NoneRet]
    ELSE LET outCls == copy(h, self)
         IN  [heap |-> [outCls.heap EXCEPT ![outCls.id] = SetCollection(@,
                          MapColl(h[self].collection, "map:clip",
                              [k \in 1..Len(h[self].collection.imgs) |->
                                  clip(h[self].region, h[self].collection.imgs[k])]))],
              ret  |-> ObjRet(outCls.id)]

clip_to_region(h, self, inplace) ==
    IF inplace
    THEN [heap |-> [h EXCEPT ![self] = SetCollection(@,
                      MapColl(h[self].collection, "map:clip",
                          [k \in 1..Len(h[self].collection.imgs) |->
                              clip(h[self].region, h[self].collection.imgs[k])]))],
          ret  |-> NoneRet]
    ELSE LET outCls == copy(h, self)
         IN  [heap |-> [outCls.heap EXCEPT ![outCls.id] = SetCollection(@,
                          MapColl(h[self].collection, "map:clip",
                              [k \in 1..Len(h[self].collection.imgs) |->
                                  clip(h[self].region, h[self].collection.imgs[k])]))],
              ret  |-> ObjRet(outCls.id)]

\* ee.ImageCollection.sort("system:time_start"): ascending and stable.
RECURSIVE SortByTime(_)
KeepOrder(imgs) == imgs
SortByTime(imgs) ==
    IF imgs = <<>> THEN <<>>
    ELSE LET front == SortByTime(SubSeq(imgs, 1, Len(imgs) - 1))
             last  == imgs[Len(imgs)]
             n     == Cardinality({k \in 1..Len(front) : front[k].t <= last.t})
         IN  SubSeq(front, 1, n) \o <<last>> \o SubSeq(front, n + 1, Len(front))

\* self.collection.merge(dataset.collection).sort("system:time_start")
merged(c, d) ==
    [ops  |-> c.ops \o <<"merge", "sort">>,
     imgs |-> IF c.err \/ d.err THEN <<>> ELSE SortByTime(c.imgs \o d.imgs),
     err  |-> c.err \/ d.err]

merge(h, self, dataset, inplace) ==
    IF inplace
    THEN [heap |-> [h EXCEPT ![self] =
                      SetCollection(@, merged(h[self].collection, h[dataset].collection))],
          ret  |-> NoneRet]
    ELSE LET outCls == copy(h, self)
         IN  [heap |-> [outCls.heap EXCEPT ![outCls.id] =
                          SetCollection(@, merged(h[self].collection, h[dataset].collection))],
              ret  |-> ObjRet(outCls.id)]

\* The join condition: at most one day apart, and intersecting footprints.
difference == 1000 * 60 * 60 * 24
Abs(x) == IF x < 0 THEN -x ELSE x
maxDifferenceStrict(p, s) == Abs(p.t - s.t) < difference
maxDifference(p, s) == Abs(p.t - s.t) <= difference
intersects(p, s) == get_geoms(p) \cap get_geoms(s) # {}
filter(p, s) == maxDifference(p, s) /\ intersects(p, s)

RECURSIVE Flatten(_)
Flatten(ss) == IF ss = <<>> THEN <<>> ELSE Head(ss) \o Flatten(Tail(ss))

\* The closure _merge(img) of join: img with the mosaic of its matches added,
\* clipped to the overlap of its footprint and the matches' footprints.
\* mosaic() fails if a match fails, and has the bands of the matches.
_merge(img, matches) ==
    LET join_geom == UNION {get_geoms(matches[k]) : k \in 1..Len(matches)}
        overlap   == img.geo \cap join_geom
        bad       == img.err \/ \E k \in 1..Len(matches) : matches[k].err
    IN  IF bad THEN Fail(img, "_merge")
        ELSE [img EXCEPT !.bands = addBands(@, matches[1].bands),
                         !.src   = @ \o matches[1].src,
                         !.geo   = overlap,
                         !.hist  = Append(@, "_merge"),
                         !.parts = @ \o Flatten([k \in 1..Len(matches) |->
                                                    matches[k].parts])]

\* ee.Join.saveAll(key).apply(primary, secondary, condition): the primary
\* images that have a match, in order, each with all its matches.
Matches(p, secondary) == SelectSeq(secondary, LAMBDA s : filter(p, s))

RECURSIVE saveAll(_, _)
saveAll(primary, secondary) ==
    IF primary = <<>> THEN <<>>
    ELSE LET p == Head(primary)
             m == Matches(p, secondary)
         IN  (IF m = <<>> THEN <<>> ELSE <<_merge(p, m)>>)
                 \o saveAll(Tail(primary), secondary)

joined(c, d) ==
    [ops  |-> c.ops \o <<"saveAll", "map:_merge">>,
     imgs |-> IF c.err \/ d.err THEN <<>> ELSE saveAll(c.imgs, d.imgs),
     err  |-> c.err \/ d.err]

join(h, self, dataset, inplace) ==
    IF inplace
    THEN [heap |-> [h EXCEPT ![self] =
                      SetCollection(@, joined(h[self].collection, h[dataset].collection))],
          ret  |-> NoneRet]
    ELSE LET outCls == copy(h, self)
         IN  [heap |-> [outCls.heap EXCEPT ![outCls.id] =
                          SetCollection(@, joined(h[self].collection, h[dataset].collection))],
              ret  |-> ObjRet(outCls.id)]

\* collection.reduce(reducer): one image; each band is named band_reducer, and
\* an empty collection reduces to an image without bands.
Reduce(imgs, reducer) ==
    [id    |-> 0,
     t     |-> 0,
     geo   |-> Cells,
     bands |-> IF imgs = <<>> THEN <<>>
               ELSE [k \in 1..Len(imgs[1].bands) |-> imgs[1].bands[k] \o "_" \o reducer],
     src   |-> IF imgs = <<>> THEN <<>> ELSE imgs[1].src,
     hist  |-> <<"reduce">>,
     parts |-> Flatten([k \in 1..Len(imgs) |-> imgs[k].parts]),
     err   |-> \E k \in 1..Len(imgs) : imgs[k].err]

\* ee.Image.rename(names): as many names as the image has bands.
Rename(img, names) ==
    IF img.err \/ Len(img.bands) # Len(names)
    THEN Fail(img, "rename")
    ELSE [img EXCEPT !.bands = names, !.hist = Append(@, "rename")]

\* ee.Image(self.collection.first()).bandNames(): the names of the first
\* image's bands; the expression fails when the collection fails, has no
\* first image, or the first image's evaluation fails.
band_namesFails(c) == c.err \/ c.imgs = <<>> \/ c.imgs[1].err
band_names(c) == IF band_namesFails(c) THEN <<>> ELSE c.imgs[1].bands

\* The closure _aggregation(d) of aggregate_time.
_aggregation(c, d, period, reducer, clip_to_area) ==
    LET t1   == DateOfDay(d)
        t2   == t1 + period * MillisPerDay
        sel  == filterDate(c, t1, t2).imgs
        red  == Rename(Reduce(sel, reducer), band_names(c))
        img  == IF band_namesFails(c) THEN Fail(red, "bandNames") ELSE red
        geom == UNION {get_geoms(sel[k]) : k \in 1..Len(sel)}
    IN  [img EXCEPT !.t = t1, !.geo = IF clip_to_area THEN geom ELSE @]

\* collection.aggregate_array("system:time_start"): the property of every
\* image; it has no value when the collection fails or the evaluation of one
\* of its images fails.
aggregate_arrayFails(c) == c.err \/ \E k \in 1..Len(c.imgs) : c.imgs[k].err

\* dates=None: the distinct days of the collection, in order of appearance
\* (no list when aggregate_array fails); otherwise ee.List(dates).
NoDates == <<-1>>
DatesOfFails(c, dates) == dates = NoDates /\ aggregate_arrayFails(c)
DatesOf(c, dates) ==
    IF dates = NoDates
    THEN IF aggregate_arrayFails(c) THEN <<>>
         ELSE Distinct([k \in 1..Len(c.imgs) |-> FormatDay(c.imgs[k].t)])
    ELSE dates

\* ee.ImageCollection.fromImages(dates.map(_aggregation)): fails as a whole
\* when the list of dates does.
out_coll(c, dates, period, reducer, clip_to_area) ==
    [ops  |-> Append(c.ops, "fromImages"),
     imgs |-> [k \in 1..Len(DatesOf(c, dates)) |->
                 _aggregation(c, DatesOf(c, dates)[k], period, reducer, clip_to_area)],
     err  |-> DatesOfFails(c, dates)]

aggregate_time(h, self, dates, period, reducer, clip_to_area, inplace) ==
    IF inplace
    THEN [heap |-> [h EXCEPT ![self] = SetCollection(@,
                      out_coll(h[self].collection, dates, period, reducer, clip_to_area))],
          ret  |-> NoneRet]
    ELSE LET outCls == copy(h, self)
         IN  [heap |-> [outCls.heap EXCEPT ![outCls.id] = SetCollection(@,
                          out_coll(h[self].collection, dates, period, reducer, clip_to_area))],
              ret  |-> ObjRet(outCls.id)]

\* Sentinel1.add_fusion_features
add_fusion_features(h, self, inplace) ==
    apply_func(h, self, "_add_fusion_features", inplace)

\* getInfo(): one request to the remote service.
getInfoTwice(e) == e + 2
getInfo(e) == e + 1

\* The values the reading properties return.
\* n_images: collection.size().getInfo() raises when the collection fails.
n_images(obj) ==
    IF obj.collection.err THEN RaiseRet("EEException")
    ELSE IntRet(Len(obj.collection.imgs))
\* dates: the request evaluates system:time_start of every image, and raises
\* when the evaluation of one of them fails.
dates(obj) ==
    IF aggregate_arrayFails(obj.collection)
    THEN RaiseRet("EEException")
    ELSE ListRet([k \in 1..Len(obj.collection.imgs) |->
                    FormatFull(obj.collection.imgs[k].t)])

(***************************************************************************)
(* Subclass constructors.                                                  *)
(***************************************************************************)
Sentinel1Init(cat, region, start_time, end_time, asset_id, use_qa) ==
    LET base == DatasetInit(cat, "Sentinel1", region, start_time, end_time,
                            asset_id, use_qa)
        coll == base.obj.collection
    IN  IF base.raised # "" THEN base
        ELSE [base EXCEPT !.obj = SetCollection(@,
                [ops  |-> Append(coll.ops, "filter"),
                 imgs |-> SelectSeq(coll.imgs, LAMBDA i : "VH" \in Range(i.bands)),
                 err  |-> coll.err])]

\* A Viirs constructor that adjusts before it selects.
ViirsInitAdjustFirst(cat, region, start_time, end_time, asset_id, apply_band_adjustment, use_qa) ==
    LET base == DatasetInit(cat, "Viirs", region, start_time, end_time,
                            asset_id, use_qa)
        coll == base.obj.collection
        adj  == MapColl(coll, "map:band_pass_adjustment",
                    [k \in 1..Len(coll.imgs) |-> band_pass_adjustment(coll.imgs[k])])
    IN  IF base.raised # "" THEN base
        ELSE IF apply_band_adjustment
        THEN [base EXCEPT !.obj = SetCollection([@ EXCEPT !.adjusted = TRUE],
                SelectColl(adj, BANDREMAP.viirs, BANDREMAP.new))]
        ELSE [base EXCEPT !.obj = SetCollection(@,
                SelectColl(coll, BANDREMAP.viirs, BANDREMAP.new))]

ViirsInit(cat, region, start_time, end_time, asset_id, apply_band_adjustment, use_qa) ==
    LET base == DatasetInit(cat, "Viirs", region, start_time, end_time,
                            asset_id, use_qa)
        coll == SelectColl(base.obj.collection, BANDREMAP.viirs, BANDREMAP.new)
    IN  IF base.raised # "" THEN base
        ELSE IF apply_band_adjustment
        THEN [base EXCEPT !.obj = SetCollection([@ EXCEPT !.adjusted = TRUE],
                MapColl(coll, "map:band_pass_adjustment",
                    [k \in 1..Len(coll.imgs) |-> band_pass_adjustment(coll.imgs[k])]))]
        ELSE [base EXCEPT !.obj = SetCollection(@, coll)]

ModisInit(cat, region, start_time, end_time, asset_id, use_qa) ==
    LET base == DatasetInit(cat, "Modis", region, start_time, end_time,
                            asset_id, use_qa)
        self == SetCollection(base.obj,
                    SelectColl(base.obj.collection, BANDREMAP.modis, BANDREMAP.new))
    IN  IF base.raised # "" THEN base
        ELSE [base EXCEPT !.obj = clip_to_region(<<self>>, 1, TRUE).heap[1]]

Landsat8Init(cat, region, start_time, end_time, asset_id, use_qa) ==
    LET base == DatasetInit(cat, "Landsat8", region, start_time, end_time,
                            asset_id, use_qa)
    IN  IF base.raised # "" THEN base
        ELSE [base EXCEPT !.obj = SetCollection(@,
                SelectColl(base.obj.collection, BANDREMAP.landsat8, BANDREMAP.new))]

Landsat7Init(cat, region, start_time, end_time, asset_id, apply_band_adjustment, use_qa) ==
    LET base == DatasetInit(cat, "Landsat7", region, start_time, end_time,
                            asset_id, use_qa)
        coll == SelectColl(base.obj.collection, BANDREMAP.landsat7, BANDREMAP.new)
    IN  IF base.raised # "" THEN base
        ELSE IF apply_band_adjustment
        THEN [base EXCEPT !.obj = SetCollection([@ EXCEPT !.adjusted = TRUE],
                MapColl(coll, "map:band_pass_adjustment",
                    [k \in 1..Len(coll.imgs) |-> band_pass_adjustment(coll.imgs[k])]))]
        ELSE [base EXCEPT !.obj = SetCollection(@, coll)]

Sentinel2Init(cat, region, start_time, end_time, asset_id, apply_band_adjustment, use_qa) ==
    LET base == DatasetInit(cat, "Sentinel2", region, start_time, end_time,
                            asset_id, use_qa)
        coll == SelectColl(base.obj.collection, BANDREMAP.sen2, BANDREMAP.new)
    IN  IF base.raised # "" THEN base
        ELSE IF apply_band_adjustment
        THEN [base EXCEPT !.obj = SetCollection([@ EXCEPT !.adjusted = TRUE],
                MapColl(coll, "map:band_pass_adjustment",
                    [k \in 1..Len(coll.imgs) |-> band_pass_adjustment(coll.imgs[k])]))]
        ELSE [base EXCEPT !.obj = SetCollection(@, coll)]

(***************************************************************************)
(* The remote catalog.                                                     *)
(***************************************************************************)
\* Three images per asset: noon of day 0 over cell 1, noon of day 1 over
\* both cells, midnight of day 3 over cell 2; not stored in time order.
AssetNo(asset) ==
    CASE asset = "COPERNICUS/S1_GRD"      -> 1
      [] asset = "NOAA/VIIRS/001/VNP09GA" -> 2
      [] asset = "MODIS/006/MOD09GA"      -> 3
      [] asset = "LANDSAT/LC08/C01/T1_SR" -> 4
      [] asset = "LANDSAT/LE07/C01/T1_SR" -> 5
      [] asset = "COPERNICUS/S2_SR"       -> 6

FixedCatalog ==
    [a \in Assets |->
        <<Img(10 * AssetNo(a) + 2, MillisPerDay + HalfDay, {1, 2}, RawBands(a)),
          Img(10 * AssetNo(a) + 1, HalfDay, {1},
              IF a = "COPERNICUS/S1_GRD" THEN <<"VV", "angle">> ELSE RawBands(a)),
          Img(10 * AssetNo(a) + 3, 3 * MillisPerDay, {2}, RawBands(a))>>]

(***************************************************************************)
(* The calls a program makes, as actions.                                  *)
(***************************************************************************)
NoCall ==
    [op |-> "", self |-> 0, dataset |-> 0, inplace |-> FALSE,
     cls |-> "", region |-> {}, start_time |-> 0, end_time |-> 0,
     asset_id |-> "", use_qa |-> FALSE, apply_band_adjustment |-> FALSE,
     func |-> "", dates |-> <<>>, period |-> 0, clip_to_area |-> FALSE]

\* A constructor call: the new object enters the heap unless __init__ raised.
Construct(c, res) ==
    /\ steps < MaxCalls
    /\ Free(heap) # {}
    /\ steps' = steps + 1
    /\ call' = c
    /\ IF res.raised = ""
       THEN /\ heap' = [heap EXCEPT ![NewId(heap)] = res.obj]
            /\ ret' = ObjRet(NewId(heap))
            /\ UNCHANGED failed
       ELSE /\ ret' = RaiseRet(res.raised)
            /\ failed' = res.obj
            /\ UNCHANGED heap
    /\ UNCHANGED <<catalog, evals>>

CtorCall(cls, region, start_time, end_time, asset_id, use_qa, aba) ==
    [NoCall EXCEPT !.op = "__init__", !.cls = cls, !.region = region,
                   !.start_time = start_time, !.end_time = end_time,
                   !.asset_id = asset_id, !.use_qa = use_qa,
                   !.apply_band_adjustment = aba]

NewDataset(region, st, et, asset_id, use_qa) ==
    Construct(CtorCall("Dataset", region, st, et, asset_id, use_qa, FALSE),
              DatasetInit(catalog, "Dataset", region, st, et, asset_id, use_qa))

NewSentinel1(region, st, et, use_qa) ==
    Construct(CtorCall("Sentinel1", region, st, et, DefaultAsset("Sentinel1"), use_qa, FALSE),
              Sentinel1Init(catalog, region, st, et, DefaultAsset("Sentinel1"), use_qa))

NewViirs(region, st, et, aba, use_qa) ==
    Construct(CtorCall("Viirs", region, st, et, DefaultAsset("Viirs"), use_qa, aba),
              ViirsInit(catalog, region, st, et, DefaultAsset("Viirs"), aba, use_qa))

NewModis(region, st, et, use_qa) ==
    Construct(CtorCall("Modis", region, st, et, DefaultAsset("Modis"), use_qa, FALSE),
              ModisInit(catalog, region, st, et, DefaultAsset("Modis"), use_qa))

NewLandsat8(region, st, et, use_qa) ==
    Construct(CtorCall("Landsat8", region, st, et, DefaultAsset("Landsat8"), use_qa, FALSE),
              Landsat8Init(catalog, region, st, et, DefaultAsset("Landsat8"), use_qa))

NewLandsat7(region, st, et, aba, use_qa) ==
    Construct(CtorCall("Landsat7", region, st, et, DefaultAsset("Landsat7"), use_qa, aba),
              Landsat7Init(catalog, region, st, et, DefaultAsset("Landsat7"), aba, use_qa))

NewSentinel2(region, st, et, aba, use_qa) ==
    Construct(CtorCall("Sentinel2", region, st, et, DefaultAsset("Sentinel2"), use_qa, aba),
              Sentinel2Init(catalog, region, st, et, DefaultAsset("Sentinel2"), aba, use_qa))

\* A composition call on live objects; a copy needs a free slot.
Compose(c, res) ==
    /\ steps < MaxCalls
    /\ c.self \in Live(heap)
    /\ c.inplace \/ Free(heap) # {}
    /\ steps' = steps + 1
    /\ call' = c
    /\ heap' = res.heap
    /\ ret' = res.ret
    /\ UNCHANGED <<catalog, evals, failed>>

ApplyFunc(self, func, inplace) ==
    Compose([NoCall EXCEPT !.op = "apply_func", !.self = self, !.func = func,
                           !.inplace = inplace],
            apply_func(heap, self, func, inplace))

ClipToRegion(self, inplace) ==
    Compose([NoCall EXCEPT !.op = "clip_to_region", !.self = self, !.inplace = inplace],
            clip_to_region(heap, self, inplace))

Merge(self, dataset, inplace) ==
    /\ dataset \in Live(heap)
    /\ Compose([NoCall EXCEPT !.op = "merge", !.self = self, !.dataset = dataset,
                              !.inplace = inplace],
               merge(heap, self, dataset, inplace))

Join(self, dataset, inplace) ==
    /\ dataset \in Live(heap)
    /\ Compose([NoCall EXCEPT !.op = "join", !.self = self, !.dataset = dataset,
                              !.inplace = inplace],
               join(heap, self, dataset, inplace))

AggregateTime(self, ds, period, clip_to_area, inplace) ==
    Compose([NoCall EXCEPT !.op = "aggregate_time", !.self = self, !.dates = ds,
                           !.period = period, !.clip_to_area = clip_to_area,
                           !.inplace = inplace],
            aggregate_time(heap, self, ds, period, "mean", clip_to_area, inplace))

AddFusionFeatures(self, inplace) ==
    /\ self \in Live(heap)
    /\ heap[self].cls = "Sentinel1"
    /\ Compose([NoCall EXCEPT !.op = "add_fusion_features", !.self = self,
                              !.func = "_add_fusion_features", !.inplace = inplace],
               add_fusion_features(heap, self, inplace))

Copy(self) ==
    Compose([NoCall EXCEPT !.op = "copy", !.self = self],
            [heap |-> copy(heap, self).heap, ret |-> ObjRet(copy(heap, self).id)])

\* An assignment to the collection property: ds.collection = value, with the
\* unfiltered image collection of an asset as the value.
AssignCollection(self, asset_id) ==
    /\ steps < MaxCalls
    /\ self \in Live(heap)
    /\ steps' = steps + 1
    /\ call' = [NoCall EXCEPT !.op = "collection.setter", !.self = self,
                              !.asset_id = asset_id]
    /\ heap' = [heap EXCEPT ![self] =
                    SetCollection(@, ImageCollection(catalog, asset_id))]
    /\ ret' = NoneRet
    /\ UNCHANGED <<catalog, evals, failed>>

\* A read: the properties n_images and dates, and __repr__, each one getInfo().
Read(c, value) ==
    /\ steps < MaxCalls
    /\ c.self \in Live(heap)
    /\ steps' = steps + 1
    /\ evals' = getInfo(evals)
    /\ call' = c
    /\ ret' = value
    /\ UNCHANGED <<heap, catalog, failed>>

NImages(self) ==
    Read([NoCall EXCEPT !.op = "n_images", !.self = self], n_images(heap[self]))

Dates(self) ==
    Read([NoCall EXCEPT !.op = "dates", !.self = self], dates(heap[self]))

Repr(self) ==
    Read([NoCall EXCEPT !.op = "__repr__", !.self = self], StrRet)

(***************************************************************************)
(* Inputs.                                                                 *)
(***************************************************************************)
Regions == {{1}, {2}, {1, 2}}
Windows == {<<0, MillisPerDay>>, <<0, 3 * MillisPerDay>>,
            <<HalfDay, 4 * MillisPerDay>>}
DateLists == {NoDates, <<0>>, <<1, 3>>, <<2, 0, 0>>}
Periods == {1, 2}

EmptyHeap == [i \in ObjIds |-> NoObj]

(***************************************************************************)
(* Spec: a program that constructs datasets over the whole area and time   *)
(* range with the default switches, composes them and reads results.       *)
(***************************************************************************)
Init ==
    /\ heap = EmptyHeap
    /\ catalog = FixedCatalog
    /\ call = NoCall
    /\ ret = NoneRet
    /\ evals = 0
    /\ failed = NoObj
    /\ steps = 0

Next ==
    \/ \E a \in {"COPERNICUS/S1_GRD", "LANDSAT/LC08/C01/T1_SR"} :
          NewDataset(Cells, 0, 4 * MillisPerDay, a, FALSE)
    \/ NewSentinel1(Cells, 0, 4 * MillisPerDay, TRUE)
    \/ NewViirs(Cells, 0, 4 * MillisPerDay, FALSE, TRUE)
    \/ NewModis({1}, 0, 4 * MillisPerDay, TRUE)
    \/ NewLandsat8(Cells, 0, 4 * MillisPerDay, TRUE)
    \/ NewLandsat7(Cells, 0, 4 * MillisPerDay, TRUE, TRUE)
    \/ NewSentinel2(Cells, MillisPerDay, 4 * MillisPerDay, FALSE, TRUE)
    \/ \E self \in ObjIds, inplace \in BOOLEAN :
          \/ \E func \in UserFuncs : ApplyFunc(self, func, inplace)
          \/ ClipToRegion(self, inplace)
          \/ \E dataset \in ObjIds : Merge(self, dataset, inplace)
          \/ \E dataset \in ObjIds : Join(self, dataset, inplace)
          \/ \E ds \in {NoDates, <<1, 3>>} :
                AggregateTime(self, ds, 1, FALSE, inplace)
          \/ AddFusionFeatures(self, inplace)
    \/ \E self \in ObjIds : Copy(self)
    \/ \E self \in ObjIds : AssignCollection(self, "LANDSAT/LC08/C01/T1_SR")
    \/ \E self \in ObjIds : NImages(self)
    \/ \E self \in ObjIds : Dates(self)
    \/ \E self \in ObjIds : Repr(self)

Spec == Init /\ [][Next]_vars

(***************************************************************************)
(* SpecCtor: one constructor call, over every class, region, time window   *)
(* and switch.                                                             *)
(***************************************************************************)
InitCtor ==
    /\ heap = EmptyHeap
    /\ catalog = FixedCatalog
    /\ call = NoCall
    /\ ret = NoneRet
    /\ evals = 0
    /\ failed = NoObj
    /\ steps = MaxCalls - 1

NextCtor ==
    \E region \in Regions, w \in Windows, use_qa \in BOOLEAN :
        \/ \E a \in Assets : NewDataset(region, w[1], w[2], a, use_qa)
        \/ NewSentinel1(region, w[1], w[2], use_qa)
        \/ NewModis(region, w[1], w[2], use_qa)
        \/ NewLandsat8(region, w[1], w[2], use_qa)
        \/ \E aba \in BOOLEAN :
              \/ NewViirs(region, w[1], w[2], aba, use_qa)
              \/ NewLandsat7(region, w[1], w[2], aba, use_qa)
              \/ NewSentinel2(region, w[1], w[2], aba, use_qa)

SpecCtor == InitCtor /\ [][NextCtor]_vars

(***************************************************************************)
(* SpecColl: one merge, join or aggregate_time call on two datasets built  *)
(* over a catalog drawn from a pool of images: same and different days,    *)
(* exactly one day apart and more, overlapping and disjoint footprints.    *)
(***************************************************************************)
SeqsUpTo(S, n) == UNION {[1..k -> S] : k \in 0..n}

SelfPool ==
    {Img(1, 0, {1}, RawBands("COPERNICUS/S1_GRD")),
     Img(2, HalfDay, {1, 2}, RawBands("COPERNICUS/S1_GRD")),
     Img(3, 2 * MillisPerDay, {1}, RawBands("COPERNICUS/S1_GRD")),
     Img(4, 2 * MillisPerDay, {1, 2}, RawBands("COPERNICUS/S1_GRD"))}

OtherPool ==
    {Img(7, MillisPerDay, {2}, RawBands("LANDSAT/LC08/C01/T1_SR")),
     Img(8, 3 * MillisPerDay, {2}, RawBands("LANDSAT/LC08/C01/T1_SR")),
     Img(9, MillisPerDay + HalfDay, {1}, RawBands("LANDSAT/LC08/C01/T1_SR"))}

InitColl ==
    /\ \E a \in SeqsUpTo(SelfPool, MaxImgs), b \in SeqsUpTo(OtherPool, MaxImgs) :
          catalog = [x \in Assets |->
                        IF x = "COPERNICUS/S1_GRD" THEN a
                        ELSE IF x = "LANDSAT/LC08/C01/T1_SR" THEN b
                        ELSE <<>>]
    /\ heap = [i \in ObjIds |->
                 IF i = 1
                 THEN DatasetInit(catalog, "Dataset", Cells, 0, 4 * MillisPerDay,
                                  "COPERNICUS/S1_GRD", FALSE).obj
                 ELSE IF i = 2
                 THEN DatasetInit(catalog, "Dataset", Cells, 0, 4 * MillisPerDay,
                                  "LANDSAT/LC08/C01/T1_SR", FALSE).obj
                 ELSE NoObj]
    /\ call = NoCall
    /\ ret = NoneRet
    /\ evals = 0
    /\ failed = NoObj
    /\ steps = MaxCalls - 1

NextColl ==
    \E self \in ObjIds, inplace \in BOOLEAN :
        \/ \E dataset \in ObjIds : Merge(self, dataset, inplace)
        \/ \E dataset \in ObjIds : Join(self, dataset, inplace)
        \/ \E ds \in DateLists, period \in Periods, clip_to_area \in BOOLEAN :
              AggregateTime(self, ds, period, clip_to_area, inplace)

SpecColl == InitColl /\ [][NextColl]_vars

(***************************************************************************)
(* SpecAgg: two aggregate_time calls, one after the other, starting from a *)
(* base Dataset over a catalog drawn from a pool that also holds an image  *)
(* with fewer bands; the second call may aggregate what the first left,    *)
(* failing images included.                                                *)
(***************************************************************************)
AggPool ==
    {Img(1, 0, {1}, RawBands("COPERNICUS/S1_GRD")),
     Img(2, HalfDay, {1, 2}, RawBands("COPERNICUS/S1_GRD")),
     Img(3, 2 * MillisPerDay, {1}, RawBands("COPERNICUS/S1_GRD")),
     Img(5, MillisPerDay, {2}, <<"VV", "angle">>)}

InitAgg ==
    /\ \E a \in SeqsUpTo(AggPool, MaxImgs) :
          catalog = [x \in Assets |-> IF x = "COPERNICUS/S1_GRD" THEN a ELSE <<>>]
    /\ heap = [i \in ObjIds |->
                 IF i = 1
                 THEN DatasetInit(catalog, "Dataset", Cells, 0, 4 * MillisPerDay,
                                  "COPERNICUS/S1_GRD", FALSE).obj
                 ELSE NoObj]
    /\ call = NoCall
    /\ ret = NoneRet
    /\ evals = 0
    /\ failed = NoObj
    /\ steps = MaxCalls - 2

NextAgg ==
    \E self \in ObjIds, inplace \in BOOLEAN :
        \E ds \in DateLists, period \in Periods, clip_to_area \in BOOLEAN :
            AggregateTime(self, ds, period, clip_to_area, inplace)

SpecAgg == InitAgg /\ [][NextAgg]_vars

(***************************************************************************)
(* Properties.  A step of the program is a step that changes steps; call'  *)
(* is the call it made, ret' what the call returned.                       *)
(***************************************************************************)
InplaceOps == {"apply_func", "clip_to_region", "merge", "join", "aggregate_time"}
ReadOps == {"n_images", "dates", "__repr__"}

\* What a method call c does from heap h.
MethodResult(h, c) ==
    CASE c.op = "apply_func"     -> apply_func(h, c.self, c.func, c.inplace)
      [] c.op = "clip_to_region" -> clip_to_region(h, c.self, c.inplace)
      [] c.op = "merge"          -> merge(h, c.self, c.dataset, c.inplace)
      [] c.op = "join"           -> join(h, c.self, c.dataset, c.inplace)
      [] c.op = "aggregate_time" ->
            aggregate_time(h, c.self, c.dates, c.period, "mean", c.clip_to_area, c.inplace)

\* The collection a composition builds from the collections of heap h.
OpCollection(h, c) ==
    LET coll == h[c.self].collection
    IN  CASE c.op = "apply_func" ->
               MapColl(coll, "map:func",
                   [k \in 1..Len(coll.imgs) |-> ApplyTo(c.func, coll.imgs[k])])
          [] c.op = "clip_to_region" ->
               MapColl(coll, "map:clip",
                   [k \in 1..Len(coll.imgs) |-> clip(h[c.self].region, coll.imgs[k])])
          [] c.op = "merge" -> merged(coll, h[c.dataset].collection)
          [] c.op = "join"  -> joined(coll, h[c.dataset].collection)
          [] c.op = "aggregate_time" ->
               out_coll(coll, c.dates, c.period, "mean", c.clip_to_area)

\* The collection a call left its result in: on self (inplace) or on the
\* returned dataset.
ResultColl(h, c, r) ==
    IF c.inplace THEN h[c.self].collection ELSE h[r.id].collection

\* C1: apply_func, clip_to_region, merge, join and aggregate_time called with
\* inplace=False return a Dataset that is a new object, distinct from self,
\* whose collection is the operation's result; self keeps its collection,
\* region, start_time, end_time and asset_id (every attribute), and for merge
\* and join the argument dataset keeps its collection.
C1_FunctionalCallLeavesSelf ==
    [][(steps' # steps /\ call'.op \in InplaceOps /\ ~call'.inplace) =>
          /\ ret'.kind = "obj"
          /\ ret'.id # call'.self
          /\ ret'.id \in Free(heap)
          /\ ret'.id \in Live(heap')
          /\ heap'[ret'.id].collection = OpCollection(heap, call')
          /\ heap'[call'.self] = heap[call'.self]
          /\ call'.op \in {"merge", "join"} =>
                heap'[call'.dataset].collection = heap[call'.dataset].collection]_vars

\* C1 witness: a merge with inplace=False has returned a new dataset whose
\* collection differs from the collection self still has.
C1_Witness ==
    /\ call.op = "merge"
    /\ ~call.inplace
    /\ ret.kind = "obj"
    /\ ret.id # call.self
    /\ heap[ret.id].collection # heap[call.self].collection
    /\ Len(heap[ret.id].collection.imgs) > Len(heap[call.self].collection.imgs)

\* C2: the same five methods called with inplace=True return None, create no
\* Dataset, and set self.collection to exactly the collection the same call
\* with inplace=False puts on the copy it returns; nothing else changes.
C2_InplaceSameAsCopy ==
    [][(steps' # steps /\ call'.op \in InplaceOps /\ call'.inplace) =>
          LET f == MethodResult(heap, [call' EXCEPT !.inplace = FALSE])
          IN  /\ ret' = NoneRet
              /\ Live(heap') = Live(heap)
              /\ heap'[call'.self].collection = f.heap[f.ret.id].collection
              /\ heap' = [heap EXCEPT ![call'.self].collection =
                                         f.heap[f.ret.id].collection]]_vars

\* C2 witness: a join with inplace=True has returned None and self holds the
\* joined collection.
C2_Witness ==
    /\ call.op = "join"
    /\ call.inplace
    /\ ret = NoneRet
    /\ heap[call.self].collection.imgs # <<>>
    /\ \E k \in 1..Len(heap[call.self].collection.ops) :
          heap[call.self].collection.ops[k] = "map:_merge"

\* C5 as stated: constructors and composition calls request no remote
\* evaluation, and a request is made only by n_images and dates, one for each
\* access, which leave every dataset as it was.
C5_OnlyNImagesAndDatesEvaluate ==
    [][steps' # steps =>
          IF call'.op \in {"n_images", "dates"}
          THEN evals' = evals + 1 /\ heap' = heap
          ELSE evals' = evals]_vars

\* C5 amended: constructors and composition calls request no remote
\* evaluation; a request is made only by n_images, dates and __repr__, one
\* for each access, and these leave every dataset as it was.
C5_OnlyReadsEvaluate ==
    [][steps' # steps =>
          IF call'.op \in ReadOps
          THEN evals' = evals + 1 /\ heap' = heap
          ELSE evals' = evals]_vars

\* C5 witness: after a constructor and a composition no request had been
\* made, and the one request made since is the read of n_images.
C5_Witness ==
    /\ call.op = "n_images"
    /\ evals = 1
    /\ steps = MaxCalls
    /\ \E i \in Live(heap) : Len(heap[i].collection.ops) > 4

\* The object the last constructor call returned.
Built == heap[ret.id]
Constructed == call.op = "__init__" /\ ret.kind = "obj"
IsPrefix(p, q) == Len(p) <= Len(q) /\ SubSeq(q, 1, Len(p)) = p
Ids(imgs) == [k \in 1..Len(imgs) |-> imgs[k].id]

\* The images of the asset that touch the region and start in the window.
InRegionAndWindow(c) ==
    SelectSeq(catalog[c.asset_id],
              LAMBDA i : /\ i.geo \cap c.region # {}
                         /\ c.start_time <= i.t
                         /\ i.t < c.end_time)

\* C3: a constructed dataset's collection starts as the image collection
\* named asset_id, filtered by bounds to region and then by date to
\* [start_time, end_time); qa is mapped over that collection if and only if
\* use_qa is True, and with use_qa=False a base Dataset holds exactly the
\* filtered images, unmasked and otherwise untouched.
C3_ConstructorFilters ==
    Constructed =>
        /\ Built.region = call.region
        /\ Built.start_time = call.start_time
        /\ Built.end_time = call.end_time
        /\ Built.asset_id = call.asset_id
        /\ IsPrefix(<<"ImageCollection", "filterBounds", "filterDate">>,
                    Built.collection.ops)
        /\ call.use_qa <=> (Len(Built.collection.ops) > 3
                               /\ Built.collection.ops[4] = "map:qa")
        /\ \A k \in 1..Len(Built.collection.imgs) :
              call.use_qa <=> "qa" \in Range(Built.collection.imgs[k].hist)
        /\ Range(Ids(Built.collection.imgs)) \subseteq Range(Ids(InRegionAndWindow(call)))
        /\ call.cls # "Sentinel1" =>
              Ids(Built.collection.imgs) = Ids(InRegionAndWindow(call))
        /\ call.cls = "Dataset" =>
              /\ ~call.use_qa
              /\ Built.collection.ops = <<"ImageCollection", "filterBounds", "filterDate">>
              /\ Built.collection.imgs = InRegionAndWindow(call)

\* C3 witness: a base Dataset was built over a region and a window that keep
\* some images of the asset and drop others.
C3_Witness ==
    /\ Constructed
    /\ call.cls = "Dataset"
    /\ Len(Built.collection.imgs) = 1
    /\ Len(catalog[call.asset_id]) = 3
    /\ \E k \in 1..3 : /\ catalog[call.asset_id][k].t = call.end_time
                       /\ catalog[call.asset_id][k].geo \cap call.region # {}

\* C4: a constructor called with use_qa=True on a class without a qa() method
\* (the base Dataset) raises AttributeError before the collection is
\* assigned: no dataset is produced, and the instance left behind never had a
\* collection; every dataset that is produced has its collection assigned.
C4_NoQaRaises ==
    /\ (call.op = "__init__" /\ call.use_qa /\ call.cls = "Dataset") =>
          /\ ret.kind = "AttributeError"
          /\ Live(heap) = {}
          /\ failed.cls = "Dataset"
          /\ ~failed.assigned
          /\ failed.collection = NoColl
    /\ ret.kind = "AttributeError" => (call.use_qa /\ call.cls = "Dataset")
    /\ \A i \in Live(heap) : heap[i].assigned

\* C4 witness: Dataset(..., use_qa=True) has raised AttributeError.
C4_Witness ==
    /\ call.op = "__init__"
    /\ call.cls = "Dataset"
    /\ call.use_qa
    /\ ret.kind = "AttributeError"
    /\ failed.region = call.region
    /\ ~failed.assigned

\* C9: right after construction, whatever use_qa and apply_band_adjustment
\* are, every image of a Viirs, Modis, Landsat8, Landsat7 or Sentinel2
\* dataset has exactly the bands blue, green, red, nir, swir1, swir2, in that
\* order, each taken position by position from the sensor's source band list
\* (no QA or angle band is left); a Sentinel1 dataset keeps its band names.
C9_BandsHarmonized ==
    Constructed =>
        \A k \in 1..Len(Built.collection.imgs) :
            LET img == Built.collection.imgs[k]
            IN  /\ call.cls \in Optical =>
                      /\ ~img.err
                      /\ img.bands = <<"blue", "green", "red", "nir", "swir1", "swir2">>
                      /\ img.src = BANDREMAP[RemapKey(call.cls)]
                /\ call.cls = "Sentinel1" =>
                      /\ ~img.err
                      /\ img.bands = img.src
                      /\ {"VV", "VH"} \subseteq Range(img.bands)

\* C9 witness: a Landsat7 dataset built with QA masking and band-pass
\* adjustment holds images.
C9_Witness ==
    /\ Constructed
    /\ call.cls = "Landsat7"
    /\ call.use_qa
    /\ call.apply_band_adjustment
    /\ Len(Built.collection.imgs) >= 2
    /\ Built.collection.imgs[1].src = <<"B1", "B2", "B3", "B4", "B5", "B7">>

\* The steps an optical constructor is to apply, in order.
OpticalSteps(c) ==
    <<"ImageCollection", "filterBounds", "filterDate">>
        \o (IF c.use_qa THEN <<"map:qa">> ELSE <<>>)
        \o <<"select">>
        \o (IF c.apply_band_adjustment THEN <<"map:band_pass_adjustment">> ELSE <<>>)
        \o (IF c.cls = "Modis" THEN <<"map:clip">> ELSE <<>>)

\* C10: every optical constructor applies, in this order: region filter, date
\* filter, QA masking (if use_qa), band selection and rename, band-pass
\* adjustment (if requested), and for Modis a final clip to region.  So QA
\* masking finds the QA bands it reads, and band-pass adjustment runs on the
\* six renamed bands: every image went through exactly these steps and none
\* fails.
C10_ConstructorStepOrder ==
    (Constructed /\ call.cls \in Optical) =>
        /\ Built.collection.ops = OpticalSteps(call)
        /\ \A k \in 1..Len(Built.collection.imgs) :
              LET img == Built.collection.imgs[k]
              IN  /\ ~img.err
                  /\ img.hist =
                        (IF call.use_qa THEN <<"qa">> ELSE <<>>)
                           \o <<"select">>
                           \o (IF call.apply_band_adjustment
                               THEN <<"band_pass_adjustment">> ELSE <<>>)
                           \o (IF call.cls = "Modis" THEN <<"clip">> ELSE <<>>)
                  /\ call.cls = "Modis" => img.geo \subseteq call.region

\* C10 witness: a Viirs dataset built with QA masking and band-pass
\* adjustment holds an image that went through qa, select and the adjustment.
C10_Witness ==
    /\ Constructed
    /\ call.cls = "Viirs"
    /\ call.use_qa
    /\ call.apply_band_adjustment
    /\ Built.adjusted
    /\ Built.collection.imgs # <<>>
    /\ Built.collection.imgs[1].hist = <<"qa", "select", "band_pass_adjustment">>

Count(s, x) == Cardinality({k \in 1..Len(s) : s[k] = x})
Unsorted(imgs) == \E i, j \in 1..Len(imgs) : i < j /\ imgs[i].t > imgs[j].t

\* C6: merge(dataset) yields a collection holding every image of
\* self.collection and every image of dataset.collection, each as often as
\* the two hold it (the size is the sum of the sizes), in ascending order of
\* system:time_start.
C6_MergeKeepsAllSorted ==
    [][(steps' # steps /\ call'.op = "merge") =>
          LET a == heap[call'.self].collection.imgs
              b == heap[call'.dataset].collection.imgs
              r == ResultColl(heap', call', ret').imgs
          IN  /\ Len(r) = Len(a) + Len(b)
              /\ \A x \in Range(a) \cup Range(b) \cup Range(r) :
                    Count(r, x) = Count(a, x) + Count(b, x)
              /\ \A i, j \in 1..Len(r) : i < j => r[i].t <= r[j].t]_vars

\* C6 witness: two datasets whose images, put one after the other, are not in
\* time order were merged into a collection of at least three images.
C6_Witness ==
    /\ call.op = "merge"
    /\ ~call.inplace
    /\ call.self # call.dataset
    /\ Unsorted(heap[call.self].collection.imgs \o heap[call.dataset].collection.imgs)
    /\ Len(heap[ret.id].collection.imgs) >= 3
    /\ ~Unsorted(heap[ret.id].collection.imgs)

\* The images of b that are at most one day from p and whose footprint
\* intersects that of p.
Colocated(p, b) ==
    SelectSeq(b, LAMBDA s : /\ p.t - s.t <= 86400000
                            /\ s.t - p.t <= 86400000
                            /\ p.geo \cap s.geo # {})

\* C7: join(dataset) yields one image for each image of self.collection that
\* has an image of dataset.collection at most one day (86,400,000 ms) from
\* it with an intersecting footprint, in the order of self.collection, and
\* none for the others; each has the bands of the self image followed by the
\* bands of the mosaic of all its matches, and the overlap of the two
\* footprints.
C7_JoinColocated ==
    [][(steps' # steps /\ call'.op = "join") =>
          LET a    == heap[call'.self].collection.imgs
              b    == heap[call'.dataset].collection.imgs
              r    == ResultColl(heap', call', ret').imgs
              kept == SelectSeq(a, LAMBDA p : Colocated(p, b) # <<>>)
          IN  /\ Len(r) = Len(kept)
              /\ \A k \in 1..Len(r) :
                    LET m == Colocated(kept[k], b)
                    IN  /\ r[k].id = kept[k].id
                        /\ r[k].t = kept[k].t
                        /\ IsPrefix(kept[k].bands, r[k].bands)
                        /\ Len(r[k].bands) = Len(kept[k].bands) + Len(m[1].bands)
                        /\ r[k].src = kept[k].src \o m[1].src
                        /\ r[k].parts =
                              kept[k].parts \o Flatten([j \in 1..Len(m) |-> m[j].parts])
                        /\ r[k].geo =
                              kept[k].geo \cap UNION {m[j].geo : j \in 1..Len(m)}]_vars

\* C7 witness: of two images of self one had no match and was dropped; the
\* other was joined with two matches, one of them exactly one day from it.
C7_Witness ==
    /\ call.op = "join"
    /\ ~call.inplace
    /\ Len(heap[call.self].collection.imgs) = 2
    /\ Len(heap[ret.id].collection.imgs) = 1
    /\ Len(heap[ret.id].collection.imgs[1].parts) = 3
    /\ \E j \in 1..Len(heap[call.dataset].collection.imgs) :
          /\ heap[call.dataset].collection.imgs[j].t
                - heap[ret.id].collection.imgs[1].t = 86400000
          /\ heap[call.dataset].collection.imgs[j].id
                \in Range(heap[ret.id].collection.imgs[1].parts)

\* The days aggregate_time is to aggregate: the dates given, or the distinct
\* calendar days of the collection.
DaysOf(a, c) == IF c.dates = NoDates THEN {a[k].t \div 86400000 : k \in 1..Len(a)}
                ELSE Range(c.dates)

\* The images of a that start in the window of period days from time t.
InPeriod(a, t, period) ==
    SelectSeq(a, LAMBDA i : t <= i.t /\ i.t < t + period * 86400000)

\* What C8 says of every output image but its band names: there is one
\* output image for each entry of dates (for each distinct calendar day of
\* the collection when dates is None), it reduces exactly the images of
\* self.collection that start in its window, and its system:time_start is the
\* start of the window.
OnePerDate(a, c, r) ==
    /\ IF c.dates = NoDates
       THEN /\ Len(r) = Cardinality(DaysOf(a, c))
            /\ \A i, j \in 1..Len(r) : i # j => r[i].t # r[j].t
       ELSE /\ Len(r) = Len(c.dates)
            /\ \A k \in 1..Len(r) : r[k].t = c.dates[k] * 86400000
    /\ {r[k].t : k \in 1..Len(r)} = {d * 86400000 : d \in DaysOf(a, c)}
    /\ \A k \in 1..Len(r) :
          r[k].parts = Flatten([j \in 1..Len(InPeriod(a, r[k].t, c.period)) |->
                                   InPeriod(a, r[k].t, c.period)[j].parts])

NamesCarried(c, w) ==
    /\ ~c.err
    /\ w # <<>>
    /\ ~c.imgs[1].err
    /\ \A j \in 1..Len(w) : ~w[j].err /\ Len(w[j].bands) = Len(c.imgs[1].bands)

\* The window w of an output image leaves it without names: self.collection
\* or its first image fails, no image starts in the window, an image of the
\* window fails, or the window's bands are not as many as the first image's.
NamesLost(c, w) ==
    \/ c.err
    \/ w = <<>>
    \/ c.imgs[1].err
    \/ \E j \in 1..Len(w) : w[j].err
    \/ Len(w[1].bands) # Len(c.imgs[1].bands)

\* Every image of a has as many bands as the first.
SameBands(a) == \A k \in 1..Len(a) : Len(a[k].bands) = Len(a[1].bands)

====
